---- MODULE Spec2Model ----
(***************************************************************************)
(* Model of the GoPro telemetry converter                                  *)
(* (src/src/gps_ver2/analyze_gopro_binary.js): the stream locator          *)
(* (extractTelemetryStream, tryAlternativeStreams), the GoProMaxParser     *)
(* marker scan and block decoders, and the processVideo job.               *)
(*                                                                         *)
(* Buffers are sequences of bytes (0..255); the byte at JavaScript offset  *)
(* o is data[o + 1].  A decoded number n / d (a JavaScript double obtained *)
(* by one division of an integer by a constant) is kept exactly, as the    *)
(* record [num |-> n, den |-> d].                                          *)
(***************************************************************************)
EXTENDS Integers, Sequences, FiniteSets, TLC

VARIABLES
    \* ---- one conversion job (processVideo) ----
    pc,            \* position of processVideo
    result,        \* "none" | "success" | "failure": what processVideo returned
    errorMsg,      \* error.message of a failure result
    disk,          \* candidate -> 0 (no file) or the id of the file's content
    created,       \* candidate -> the demuxer of this job wrote the file
    proc,          \* candidate -> state of its demux child process
    exitCode,      \* candidate -> exit status handed to 'close'
    loc,           \* promise of extractTelemetryStream: idle|pending|resolved|rejected
    binFile,       \* candidate whose file path the promise resolved with (0: none)
    awaiting,      \* alternate the loop of tryAlternativeStreams awaits (0: none)
    attempts,      \* candidates in the order they were spawned
    verdict,       \* candidate -> none | accepted | rejected (decision of its handler)
    seen,          \* candidate -> content of its file when its 'close' handler ran (0: no file)
    \* ---- parser (GoProMaxParser) ----
    data,          \* this.data
    extractedData, \* this.extractedData: [GPS5, ACCL, GYRO, CORI -> sequence of samples]
    positions,     \* tag -> offsets pushed by the last marker scan for that tag
    ppc,           \* position inside parse()
    examined,      \* tag -> per marker occurrence, the record slots its decoder examined
    csvLines       \* csvLines of generateCSV: the header, then the data rows

vars == <<pc, result, errorMsg, disk, created, proc, exitCode, loc, binFile,
          awaiting, attempts, verdict, seen, data, extractedData, positions, ppc,
          examined, csvLines>>

jobVars == <<pc, result, errorMsg, disk, created, proc, exitCode, loc, binFile,
             awaiting, attempts, verdict, seen>>

parserVars == <<data, extractedData, positions, ppc, examined, csvLines>>

(***************************************************************************)
(* Bytes, markers, integer reads                                           *)
(***************************************************************************)
Tags == {"GPS5", "ACCL", "GYRO", "CORI"}

\* Buffer.from(tagName): the ASCII bytes of the tag
MarkerBytes(tag) ==
    CASE tag = "GPS5" -> <<71, 80, 83, 53>>
      [] tag = "ACCL" -> <<65, 67, 67, 76>>
      [] tag = "GYRO" -> <<71, 89, 82, 79>>
      [] tag = "CORI" -> <<67, 79, 82, 73>>

Min(S) == CHOOSE x \in S : \A y \in S : x <= y

Range(f) == {f[i] : i \in DOMAIN f}

\* a comparison of the first three bytes of the marker only
MatchAtPrefix(buf, marker, i) ==
    /\ i >= 0
    /\ i + Len(marker) <= Len(buf)
    /\ \A j \in 1..(Len(marker) - 1) : buf[i + j] = marker[j]

\* the marker occupies offsets i .. i + Len(marker) - 1 of buf, all inside buf
MatchAt(buf, marker, i) ==
    /\ i >= 0
    /\ i + Len(marker) <= Len(buf)
    /\ \A j \in 1..Len(marker) : buf[i + j] = marker[j]

\* a search that compares only the bytes that are left at the end of the buffer
IndexOfTruncated(buf, marker, from) ==
    LET hits == {i \in from..(Len(buf) - 1) :
                    \A j \in 1..Len(marker) : i + j <= Len(buf) => buf[i + j] = marker[j]}
    IN  IF hits = {} THEN -1 ELSE Min(hits)

\* Buffer.prototype.indexOf(value, byteOffset): first full occurrence at or
\* after byteOffset, -1 when there is none
IndexOf(buf, marker, from) ==
    LET hits == {i \in from..(Len(buf) - Len(marker)) : MatchAt(buf, marker, i)}
    IN  IF hits = {} THEN -1 ELSE Min(hits)

\* the same four bytes read most significant byte first
ReadInt32BE(buf, offset) ==
    LET b0 == buf[offset + 4]
        b1 == buf[offset + 3]
        b2 == buf[offset + 2]
        b3 == buf[offset + 1]
        hi == IF b3 >= 128 THEN b3 - 256 ELSE b3
    IN  hi * 16777216 + b2 * 65536 + b1 * 256 + b0

\* Buffer.prototype.readInt32LE(offset)
ReadInt32LE(buf, offset) ==
    LET b0 == buf[offset + 1]
        b1 == buf[offset + 2]
        b2 == buf[offset + 3]
        b3 == buf[offset + 4]
        hi == IF b3 >= 128 THEN b3 - 256 ELSE b3
    IN  hi * 16777216 + b2 * 65536 + b1 * 256 + b0

\* Buffer.prototype.readInt16LE(offset)
ReadInt16LE(buf, offset) ==
    LET b0 == buf[offset + 1]
        b1 == buf[offset + 2]
        hi == IF b1 >= 128 THEN b1 - 256 ELSE b1
    IN  hi * 256 + b0

\* the double n / d
Div(n, d) == [num |-> n, den |-> d]

\* Math.abs of the double n / d
MathAbs(q) == [num |-> IF q.num < 0 THEN 0 - q.num ELSE q.num, den |-> q.den]

\* Math.min, Math.floor(a / b) for b > 0
MathMin(a, b) == IF a <= b THEN a ELSE b
FloorDiv(a, b) == a \div b

(***************************************************************************)
(* Marker scan: the while loops of findAndParseGPS5 / findAndParseSensorData *)
(***************************************************************************)
RECURSIVE ScanFrom(_, _, _, _)
ScanFrom(buf, marker, searchPos, found) ==
    IF searchPos < Len(buf) - 4
    THEN LET index == IndexOf(buf, marker, searchPos)
         IN  IF index = -1 THEN found
             ELSE ScanFrom(buf, marker, index + 1, Append(found, index))
    ELSE found

FindPositions(buf, tag) == ScanFrom(buf, MarkerBytes(tag), 0, <<>>)

(***************************************************************************)
(* parseGPS5Block                                                          *)
(***************************************************************************)
GPS5HeaderSkip == 8
GPS5RecordSize == 20
GPS5MaxSamples == 20
LatLonScale == 10000000
AltSpeedScale == 1000

\* a validity check that forgets the longitude range
ValidCoordinateLatOnly(lat, lon) ==
    /\ MathAbs(lat).num <= 90 * lat.den
    /\ lat.num # 0
    /\ lon.num # 0

\* the validity check of line 458, on the doubles lat and lon
ValidCoordinate(lat, lon) ==
    /\ MathAbs(lat).num <= 90 * lat.den
    /\ MathAbs(lon).num <= 180 * lon.den
    /\ lat.num # 0
    /\ lon.num # 0

\* the record at offset, decoded (lines 451-465)
GPS5Sample(buf, offset) ==
    [latitude  |-> Div(ReadInt32LE(buf, offset), LatLonScale),
     longitude |-> Div(ReadInt32LE(buf, offset + 4), LatLonScale),
     altitude  |-> Div(ReadInt32LE(buf, offset + 8), AltSpeedScale),
     speed_2d  |-> MathAbs(Div(ReadInt32LE(buf, offset + 12), AltSpeedScale)),
     speed_3d  |-> MathAbs(Div(ReadInt32LE(buf, offset + 16), AltSpeedScale))]

RECURSIVE GPS5Loop(_, _, _, _, _)
GPS5Loop(buf, dataStart, maxSamples, i, coordinates) ==
    IF i < maxSamples
    THEN LET offset == dataStart + i * GPS5RecordSize
         IN  IF offset + GPS5RecordSize > Len(buf) THEN coordinates
             ELSE LET s == GPS5Sample(buf, offset)
                  IN  GPS5Loop(buf, dataStart, maxSamples, i + 1,
                               IF ValidCoordinate(s.latitude, s.longitude)
                               THEN Append(coordinates, s) ELSE coordinates)
    ELSE coordinates

\* the coordinates one block contributes
parseGPS5Block(buf, startPos) ==
    LET dataStart == startPos + GPS5HeaderSkip
        maxSamples == MathMin(GPS5MaxSamples,
                              FloorDiv(Len(buf) - dataStart, GPS5RecordSize))
    IN  GPS5Loop(buf, dataStart, maxSamples, 0, <<>>)

(***************************************************************************)
(* parseSensorBlock                                                        *)
(***************************************************************************)
\* a sensor decoder that skips as many bytes as the GPS5 decoder
SensorHeaderSkipShort == GPS5HeaderSkip

SensorHeaderSkip == 12
SensorMaxSamples == 100
AxisScale == 1000
QuatScale == 32767

SampleSize(tag) == IF tag = "CORI" THEN 8 ELSE 6

SensorSample(buf, tag, offset) ==
    IF tag = "CORI"
    THEN [w |-> Div(ReadInt16LE(buf, offset), QuatScale),
          x |-> Div(ReadInt16LE(buf, offset + 2), QuatScale),
          y |-> Div(ReadInt16LE(buf, offset + 4), QuatScale),
          z |-> Div(ReadInt16LE(buf, offset + 6), QuatScale)]
    ELSE [x |-> Div(ReadInt16LE(buf, offset), AxisScale),
          y |-> Div(ReadInt16LE(buf, offset + 2), AxisScale),
          z |-> Div(ReadInt16LE(buf, offset + 4), AxisScale)]

\* the iterations a decoder's for loop completes: iteration j runs when
\* j < maxSamples and neither it nor an earlier one took the break of
\* `offset + size > this.data.length`
LoopIterations(len, dataStart, stride, maxSamples) ==
    Cardinality({j \in 0..(maxSamples - 1) :
                    \A m \in 0..j : ~(dataStart + m * stride + stride > len)})

\* the samples the loop of parseSensorBlock pushes, one per iteration
SensorLoop(buf, tag, dataStart, maxSamples) ==
    [j \in 1..LoopIterations(Len(buf), dataStart, SampleSize(tag), maxSamples) |->
        SensorSample(buf, tag, dataStart + (j - 1) * SampleSize(tag))]

parseSensorBlock(buf, tag, startPos) ==
    LET dataStart == startPos + SensorHeaderSkip
        maxSamples == MathMin(SensorMaxSamples,
                              FloorDiv(Len(buf) - dataStart, SampleSize(tag)))
    IN  SensorLoop(buf, tag, dataStart, maxSamples)

\* what one marker occurrence contributes to its channel
ParseBlock(buf, tag, startPos) ==
    IF tag = "GPS5" THEN parseGPS5Block(buf, startPos)
    ELSE parseSensorBlock(buf, tag, startPos)

\* the record slots the decoder of tag examines for the occurrence at startPos
SlotsExamined(buf, tag, startPos) ==
    IF tag = "GPS5"
    THEN LoopIterations(Len(buf), startPos + GPS5HeaderSkip, GPS5RecordSize,
             MathMin(GPS5MaxSamples,
                     FloorDiv(Len(buf) - (startPos + GPS5HeaderSkip), GPS5RecordSize)))
    ELSE LoopIterations(Len(buf), startPos + SensorHeaderSkip, SampleSize(tag),
             MathMin(SensorMaxSamples,
                     FloorDiv(Len(buf) - (startPos + SensorHeaderSkip), SampleSize(tag))))

\* the record slots examined for each of the offsets pos
SlotsAt(buf, tag, pos) == [k \in 1..Len(pos) |-> SlotsExamined(buf, tag, pos[k])]

\* a forEach in which every block replaces what the channel held
RECURSIVE ForEachBlockOverwriting(_, _, _, _, _)
ForEachBlockOverwriting(buf, tag, pos, k, channel) ==
    IF k > Len(pos) THEN channel
    ELSE ForEachBlockOverwriting(buf, tag, pos, k + 1, ParseBlock(buf, tag, pos[k]))

\* positions.forEach(pos => parse...Block(pos)): every block appends to the channel
RECURSIVE ForEachBlock(_, _, _, _, _)
ForEachBlock(buf, tag, pos, k, channel) ==
    IF k > Len(pos) THEN channel
    ELSE ForEachBlock(buf, tag, pos, k + 1, channel \o ParseBlock(buf, tag, pos[k]))

\* this.extractedData after the forEach over the offsets pos
ParseAt(buf, tag, pos, ed) == [ed EXCEPT ![tag] = ForEachBlock(buf, tag, pos, 1, ed[tag])]

\* this.extractedData after findAndParseGPS5 / findAndParseSensorData(tag)
FindAndParse(buf, tag, ed) == ParseAt(buf, tag, FindPositions(buf, tag), ed)

EmptyData == [t \in Tags |-> <<>>]

\* the constructor followed by parse()
ParseAll(buf) ==
    FindAndParse(buf, "CORI",
        FindAndParse(buf, "GYRO",
            FindAndParse(buf, "ACCL",
                FindAndParse(buf, "GPS5", EmptyData))))

(***************************************************************************)
(* parse(): the four scans in the order of lines 554-557, one step each    *)
(***************************************************************************)
NextTag(tag) ==
    CASE tag = "GPS5" -> "ACCL"
      [] tag = "ACCL" -> "GYRO"
      [] tag = "GYRO" -> "CORI"
      [] tag = "CORI" -> "parsed"

\* the scan fills positions, then positions.forEach decodes each block
findAndParseGPS5 ==
    /\ ppc = "GPS5"
    /\ positions' = [positions EXCEPT !["GPS5"] = FindPositions(data, "GPS5")]
    /\ extractedData' = ParseAt(data, "GPS5", positions'["GPS5"], extractedData)
    /\ examined' = [examined EXCEPT !["GPS5"] = SlotsAt(data, "GPS5", positions'["GPS5"])]
    /\ ppc' = NextTag("GPS5")
    /\ UNCHANGED <<data, csvLines, jobVars>>

findAndParseSensorData(tagName) ==
    /\ tagName # "GPS5"
    /\ ppc = tagName
    /\ positions' = [positions EXCEPT ![tagName] = FindPositions(data, tagName)]
    /\ extractedData' = ParseAt(data, tagName, positions'[tagName], extractedData)
    /\ examined' = [examined EXCEPT ![tagName] = SlotsAt(data, tagName, positions'[tagName])]
    /\ ppc' = NextTag(tagName)
    /\ UNCHANGED <<data, csvLines, jobVars>>

ParserStep ==
    \/ findAndParseGPS5
    \/ \E tagName \in Tags : findAndParseSensorData(tagName)

(***************************************************************************)
(* generateCSV (lines 577-656)                                             *)
(*                                                                         *)
(* The text of a number is kept as [units |-> u, decimals |-> k]: the      *)
(* decimal numeral of u / 10^k with k decimals, which is what toFixed(k)   *)
(* prints (k = 0: toString of an integer).  A line is the sequence of its  *)
(* fields, which join(',') separates by commas.                            *)
(***************************************************************************)
Max(S) == CHOOSE x \in S : \A y \in S : x >= y

RECURSIVE Pow10(_)
Pow10(k) == IF k = 0 THEN 1 ELSE 10 * Pow10(k - 1)

\* a * m / d rounded to the nearest integer, for a >= 0 and m a multiple of 1000
RoundMulDiv(a, m, d) ==
    LET x  == a * 1000
        q1 == x \div d
        r1 == x % d
        y  == r1 * (m \div 1000)
    IN  q1 * (m \div 1000) + (2 * y + d) \div (2 * d)

\* Number.prototype.toFixed(k) of the double q
ToFixed(q, k) ==
    LET scale == Pow10(k)
        mag   == MathAbs(q).num
        u     == IF scale % q.den = 0 THEN mag * (scale \div q.den)
                 ELSE RoundMulDiv(mag, scale, q.den)
    IN  [units |-> IF q.num < 0 THEN 0 - u ELSE u, decimals |-> k]

\* i.toString()
IntToString(i) == [units |-> i, decimals |-> 0]

\* (i * 0.033333): the product, whose sixth decimal is exact
FrameTime(i) == Div(i * 33333, 1000000)

\* a lookup that repeats the channel's last sample in the rows after it
RowValueHoldLast(channel, i, field, dflt) ==
    LET k == IF i + 1 <= Len(channel) THEN i + 1 ELSE Len(channel)
    IN  IF k >= 1 /\ channel[k][field].num # 0 THEN channel[k][field] ELSE Div(dflt, 1)

\* ((channel[i] || {}).field || dflt): the field of sample i when there is
\* one and it is not 0, else the default
RowValue(channel, i, field, dflt) ==
    IF i + 1 <= Len(channel) /\ channel[i + 1][field].num # 0
    THEN channel[i + 1][field]
    ELSE Div(dflt, 1)

\* Math.max of the four lengths and 1
RowCountNoFloor(ed) == Max({Len(ed[t]) : t \in Tags})
RowCount(ed) == Max({Len(ed[t]) : t \in Tags} \cup {1})

HeadersGPS5 == <<"latitude", "longitude", "altitude", "speed_2d", "speed_3d">>
HeadersACCL == <<"accel_x", "accel_y", "accel_z">>
HeadersGYRO == <<"gyro_x", "gyro_y", "gyro_z">>
HeadersCORI == <<"orientation_w", "orientation_x", "orientation_y", "orientation_z">>

\* a header built from a fixed schema, whatever the channels hold
CSVHeadersFixed(ed) ==
    <<"index", "timestamp">> \o HeadersGPS5 \o HeadersACCL \o HeadersGYRO \o HeadersCORI

\* lines 588-604
CSVHeaders(ed) ==
    <<"index", "timestamp">>
        \o (IF Len(ed["GPS5"]) > 0 THEN HeadersGPS5 ELSE <<>>)
        \o (IF Len(ed["ACCL"]) > 0 THEN HeadersACCL ELSE <<>>)
        \o (IF Len(ed["GYRO"]) > 0 THEN HeadersGYRO ELSE <<>>)
        \o (IF Len(ed["CORI"]) > 0 THEN HeadersCORI ELSE <<>>)

\* a row that leaves out the fields of a channel that has no sample i
CSVRowSkipAbsent(ed, i) ==
    <<IntToString(i), ToFixed(FrameTime(i), 6)>>
        \o (IF i < Len(ed["GPS5"])
            THEN <<ToFixed(RowValue(ed["GPS5"], i, "latitude", 0), 7),
                   ToFixed(RowValue(ed["GPS5"], i, "longitude", 0), 7),
                   ToFixed(RowValue(ed["GPS5"], i, "altitude", 0), 3),
                   ToFixed(RowValue(ed["GPS5"], i, "speed_2d", 0), 3),
                   ToFixed(RowValue(ed["GPS5"], i, "speed_3d", 0), 3)>>
            ELSE <<>>)
        \o (IF i < Len(ed["ACCL"])
            THEN <<ToFixed(RowValue(ed["ACCL"], i, "x", 0), 6),
                   ToFixed(RowValue(ed["ACCL"], i, "y", 0), 6),
                   ToFixed(RowValue(ed["ACCL"], i, "z", 0), 6)>>
            ELSE <<>>)
        \o (IF i < Len(ed["GYRO"])
            THEN <<ToFixed(RowValue(ed["GYRO"], i, "x", 0), 6),
                   ToFixed(RowValue(ed["GYRO"], i, "y", 0), 6),
                   ToFixed(RowValue(ed["GYRO"], i, "z", 0), 6)>>
            ELSE <<>>)
        \o (IF i < Len(ed["CORI"])
            THEN <<ToFixed(RowValue(ed["CORI"], i, "w", 1), 6),
                   ToFixed(RowValue(ed["CORI"], i, "x", 0), 6),
                   ToFixed(RowValue(ed["CORI"], i, "y", 0), 6),
                   ToFixed(RowValue(ed["CORI"], i, "z", 0), 6)>>
            ELSE <<>>)

\* lines 610-653: the fields of data row i
CSVRow(ed, i) ==
    <<IntToString(i), ToFixed(FrameTime(i), 6)>>
        \o (IF Len(ed["GPS5"]) > 0
            THEN <<ToFixed(RowValue(ed["GPS5"], i, "latitude", 0), 7),
                   ToFixed(RowValue(ed["GPS5"], i, "longitude", 0), 7),
                   ToFixed(RowValue(ed["GPS5"], i, "altitude", 0), 3),
                   ToFixed(RowValue(ed["GPS5"], i, "speed_2d", 0), 3),
                   ToFixed(RowValue(ed["GPS5"], i, "speed_3d", 0), 3)>>
            ELSE <<>>)
        \o (IF Len(ed["ACCL"]) > 0
            THEN <<ToFixed(RowValue(ed["ACCL"], i, "x", 0), 6),
                   ToFixed(RowValue(ed["ACCL"], i, "y", 0), 6),
                   ToFixed(RowValue(ed["ACCL"], i, "z", 0), 6)>>
            ELSE <<>>)
        \o (IF Len(ed["GYRO"]) > 0
            THEN <<ToFixed(RowValue(ed["GYRO"], i, "x", 0), 6),
                   ToFixed(RowValue(ed["GYRO"], i, "y", 0), 6),
                   ToFixed(RowValue(ed["GYRO"], i, "z", 0), 6)>>
            ELSE <<>>)
        \o (IF Len(ed["CORI"]) > 0
            THEN <<ToFixed(RowValue(ed["CORI"], i, "w", 1), 6),
                   ToFixed(RowValue(ed["CORI"], i, "x", 0), 6),
                   ToFixed(RowValue(ed["CORI"], i, "y", 0), 6),
                   ToFixed(RowValue(ed["CORI"], i, "z", 0), 6)>>
            ELSE <<>>)

\* csvLines when the loop of line 609 has ended
CSVLines(ed) ==
    <<CSVHeaders(ed)>> \o [r \in 1..RowCount(ed) |-> CSVRow(ed, r - 1)]

\* generateCSV on the result of parse(), up to its write
generateCSVLines ==
    /\ pc = "start"
    /\ ppc = "parsed"
    /\ csvLines' = CSVLines(extractedData)
    /\ ppc' = "serialized"
    /\ UNCHANGED <<data, extractedData, positions, examined, jobVars>>

(***************************************************************************)
(* Input buffers of the parser                                             *)
(***************************************************************************)
MaxTokens == 3         \* pieces per scan buffer
MaxPad == 2            \* bytes before the first marker
MaxTail == 1           \* bytes after the last whole record
MaxRecords == 2        \* records after one marker
MaxBlocks == 2         \* marker occurrences per multi-block buffer

\* the little-endian two's complement bytes of v
Int32LEBytes(v) ==
    <<v % 256, (v \div 256) % 256, (v \div 65536) % 256, (v \div 16777216) % 256>>

Int16LEBytes(v) == <<v % 256, (v \div 256) % 256>>

RECURSIVE Flatten(_)
Flatten(ss) == IF ss = <<>> THEN <<>> ELSE Head(ss) \o Flatten(Tail(ss))

Zeros(n) == [i \in 1..n |-> 0]

\* sequences over S of length 0..n
SeqsUpTo(S, n) == UNION {[1..k -> S] : k \in 0..n}

\* a 20-byte GPS5 record holding the five fields f
GPS5RecordBytes(f) == Flatten([i \in 1..5 |-> Int32LEBytes(f[i])])

LatFields == {0, 375000000, -900000000, 900000001}
LonFields == {0, -1225000000, 1800000000, -1800000001}
RestFields == {<<12345, 2500, 2600>>, <<-5000, -2500, -1>>, <<0, 0, 0>>}

GPS5Fields == {<<lat, lon>> \o rest : lat \in LatFields, lon \in LonFields, rest \in RestFields}

\* records used after the first one of a block
MoreGPS5Fields == {<<375000000, -1225000000, 12345, 2500, 2600>>,
                   <<0, 0, 100, 1, 1>>,
                   <<0, 1800000000, 100, 1, 1>>,
                   <<900000001, 5, 100, -1, 1>>}

\* the four bytes between a GPS5 marker and its first record
GPS5Header == <<108, 4, 0, 5>>

\* the eight bytes between a sensor marker and its first record
SensorHeader == <<115, 6, 0, 2, 0, 0, 0, 0>>

\* scan buffers: pieces of markers, whole markers and other bytes, in any order
ScanTokens == {MarkerBytes(t) : t \in Tags} \cup {<<0>>, <<71>>, <<71, 80, 83>>}

ScanBuffers == {Flatten(ts) : ts \in SeqsUpTo(ScanTokens, MaxTokens)}

\* one GPS5 marker at offset k, its header, n records and a partial record
OneBlockBuffers ==
    {Zeros(k) \o MarkerBytes("GPS5") \o GPS5Header \o recs \o Zeros(t) :
        k \in 0..MaxPad, t \in 0..MaxTail,
        recs \in {<<>>}
           \cup {GPS5RecordBytes(f) \o Flatten([i \in DOMAIN more |-> GPS5RecordBytes(more[i])]) :
                    f \in GPS5Fields, more \in SeqsUpTo(MoreGPS5Fields, MaxRecords - 1)}}

\* several GPS5 blocks of at most one record each
MultiBlockBuffers ==
    {Flatten([i \in DOMAIN bs |-> MarkerBytes("GPS5") \o GPS5Header \o bs[i]]) :
        bs \in SeqsUpTo({<<>>} \cup {GPS5RecordBytes(f) : f \in MoreGPS5Fields}, MaxBlocks)}

AxisFields == {<<1000, -2000, 0>>, <<-32768, 32767, 1>>}
QuatFields == {<<32767, 0, 0, 0>>, <<0, 32767, -32767, 1>>}

SensorRecordBytes(f) == Flatten([i \in DOMAIN f |-> Int16LEBytes(f[i])])

\* one sensor marker at offset k, its header, n records and a partial record
SensorBuffers ==
    {Zeros(k) \o MarkerBytes(tag) \o SensorHeader
        \o Flatten([i \in DOMAIN fs |-> SensorRecordBytes(fs[i])]) \o Zeros(t) :
        k \in 0..MaxPad, t \in 0..MaxTail, tag \in Tags \ {"GPS5"},
        fs \in SeqsUpTo(AxisFields \cup QuatFields, MaxRecords)}

\* 64-byte buffers without any marker: all zero, and near misses (a marker
\* with a wrong fourth byte, the first three bytes of a marker at the end)
NoMarkerBuffers ==
    {Zeros(64),
     <<65, 67, 67, 77>> \o Zeros(60),
     Zeros(20) \o <<71, 80, 83, 54>> \o Zeros(37) \o <<67, 79, 82>>,
     [i \in 1..64 |-> 255]}

\* one marker, its header and zero bytes for one byte less than the record
\* cap, exactly the cap, and one record more than the cap
LongBlockBuffers ==
    {MarkerBytes("GPS5") \o GPS5Header \o Zeros(GPS5MaxSamples * GPS5RecordSize + d) :
        d \in {-1, 0, GPS5RecordSize}}
    \cup {MarkerBytes(tag) \o SensorHeader
              \o Zeros(SensorMaxSamples * SampleSize(tag) + d * SampleSize(tag) - e) :
              tag \in Tags \ {"GPS5"}, d \in {0, 1}, e \in {0, 1}}

\* blocks of several channels in one buffer: a GPS5 block, an ACCL block of
\* two records, a CORI block and a second ACCL block
MixedBuffers ==
    {MarkerBytes("GPS5") \o GPS5Header
        \o GPS5RecordBytes(<<375000000, -1225000000, 12345, 2500, 2600>>)
        \o MarkerBytes("ACCL") \o SensorHeader
        \o SensorRecordBytes(f) \o SensorRecordBytes(<<1, 2, 3>>)
        \o MarkerBytes("CORI") \o SensorHeader \o SensorRecordBytes(q)
        \o MarkerBytes("ACCL") \o SensorHeader \o SensorRecordBytes(<<-1, -2, -3>>) :
        f \in AxisFields, q \in QuatFields}

TestBuffers ==
    ScanBuffers \cup OneBlockBuffers \cup MultiBlockBuffers \cup SensorBuffers
        \cup NoMarkerBuffers \cup LongBlockBuffers \cup MixedBuffers

(***************************************************************************)
(* The parser alone: new GoProMaxParser(buffer).parse() for every buffer   *)
(***************************************************************************)
JobIdle ==
    /\ pc = "start"
    /\ result = "none"
    /\ errorMsg = ""
    /\ disk = [c \in {2, 3, 4, 5} |-> 0]
    /\ created = [c \in {2, 3, 4, 5} |-> FALSE]
    /\ proc = [c \in {2, 3, 4, 5} |-> "none"]
    /\ exitCode = [c \in {2, 3, 4, 5} |-> 0]
    /\ loc = "idle"
    /\ binFile = 0
    /\ awaiting = 0
    /\ attempts = <<>>
    /\ verdict = [c \in {2, 3, 4, 5} |-> "none"]
    /\ seen = [c \in {2, 3, 4, 5} |-> 0]

ParserInit ==
    /\ JobIdle
    /\ data \in TestBuffers
    /\ extractedData = EmptyData
    /\ positions = [t \in Tags |-> <<>>]
    /\ examined = [t \in Tags |-> <<>>]
    /\ csvLines = <<>>
    /\ ppc = "GPS5"

ParserNext == ParserStep \/ generateCSVLines

SpecParser == ParserInit /\ [][ParserNext]_vars

(***************************************************************************)
(* generateCSV alone: the channels are drawn directly, every combination   *)
(* of lengths 0..MaxLen, with samples the decoders can produce             *)
(***************************************************************************)
MaxLen == 5

\* k-th sample of a location channel: in range, non-zero, speeds not negative
LocationSample(k) ==
    [latitude  |-> Div(375000000 + k, LatLonScale),
     longitude |-> Div(0 - 1225000000 - k, LatLonScale),
     altitude  |-> Div(100 * k - 100, AltSpeedScale),
     speed_2d  |-> Div(k - 1, AltSpeedScale),
     speed_3d  |-> Div(k, AltSpeedScale)]

\* k-th sample of ACCL / GYRO: int16 / 1000, of both signs and zero
AxisSample(k) ==
    [x |-> Div(k - 2, AxisScale), y |-> Div(0 - 500 * k, AxisScale),
     z |-> Div(9806 + k, AxisScale)]

\* k-th sample of CORI: int16 / 32767; the first is the identity, the
\* second has w = 0
QuatSample(k) ==
    [w |-> Div(IF k = 1 THEN 32767 ELSE (k - 2) * 5000, QuatScale),
     x |-> Div(IF k = 1 THEN 0 ELSE 0 - 23170, QuatScale),
     y |-> Div(k - 1, QuatScale),
     z |-> Div(IF k = 1 THEN 0 ELSE 32767 - k, QuatScale)]

ChannelOfLength(tag, n) ==
    [k \in 1..n |-> CASE tag = "GPS5" -> LocationSample(k)
                      [] tag = "CORI" -> QuatSample(k)
                      [] OTHER -> AxisSample(k)]

ChannelInputs ==
    {[t \in Tags |-> ChannelOfLength(t, n[t])] : n \in [Tags -> 0..MaxLen]}

CSVInit ==
    /\ JobIdle
    /\ data = <<>>
    /\ extractedData \in ChannelInputs
    /\ positions = [t \in Tags |-> <<>>]
    /\ examined = [t \in Tags |-> <<>>]
    /\ csvLines = <<>>
    /\ ppc = "parsed"

CSVNext == generateCSVLines

SpecCSV == CSVInit /\ [][CSVNext]_vars

(***************************************************************************)
(* The stream locator and the job                                          *)
(*                                                                         *)
(* A candidate is named by its stream number: 3 is the primary candidate   *)
(* (-map 0:3), streams lists the alternates.  A demux child process is     *)
(*   none      not spawned                                                 *)
(*   running   alive                                                       *)
(*   spawnfail spawn() failed, its 'error' event is pending                *)
(*   exited    terminated, its 'close' event is pending                    *)
(*   errored   'error' was delivered, 'close' (with a negative status) is  *)
(*             pending                                                     *)
(*   closed    'close' was delivered                                       *)
(***************************************************************************)
PrimaryStream == 3
streamsReordered == <<4, 2, 5>>
streams == <<2, 4, 5>>
Candidates == {PrimaryStream} \cup Range(streams)
MinSize == 1000

\* Buffer.from('GPMF'), the signature simple_debug.js looks for
GPMFSignature == <<71, 80, 77, 70>>

\* the contents a demuxer can leave in a .bin file: empty, exactly MinSize
\* bytes, one byte more, a stream with a GPS5 and an ACCL block, and a
\* stream with the signature, an invalid and a valid GPS5 record, and a
\* CORI block whose second record is cut off
FileContents ==
    << <<>>,
       Zeros(MinSize),
       Zeros(MinSize + 1),
       Zeros(MinSize) \o MarkerBytes("GPS5") \o GPS5Header
           \o GPS5RecordBytes(<<375000000, -1225000000, 12345, 2500, 2600>>)
           \o MarkerBytes("ACCL") \o SensorHeader
           \o SensorRecordBytes(<<1000, -2000, 0>>),
       GPMFSignature \o Zeros(MinSize) \o MarkerBytes("GPS5") \o GPS5Header
           \o GPS5RecordBytes(<<0, -1225000000, 100, 1, 1>>)
           \o GPS5RecordBytes(<<375000000, -1225000000, 12345, 2500, 2600>>)
           \o MarkerBytes("CORI") \o SensorHeader
           \o SensorRecordBytes(<<0, 32767, -32767, 1>>) \o Zeros(5) >>

ContentIds == 1..Len(FileContents)

\* fs.statSync(file).size of a file holding content id
Size(id) == Len(FileContents[id])

\* what the output directory holds for a candidate when the job starts: no
\* file, or the buffer an earlier run accepted and left behind
StaleFiles == {0, 3}

SizeAcceptedAtLeast(size) == size >= MinSize
\* stats.size > 1000
SizeAccepted(size) == size > MinSize

\* buffer.includes(Buffer.from('GPMF')) for the file holding content id
ContainsSignature(id) == IndexOf(FileContents[id], GPMFSignature, 0) # -1

\* an acceptance test that also asks for the signature, as the one of
\* simple_debug.js for its alternates
AcceptedWithSignature(c) ==
    /\ exitCode[c] = 0
    /\ disk[c] # 0
    /\ SizeAccepted(Size(disk[c]))
    /\ ContainsSignature(disk[c])

\* code === 0 && fs.existsSync(binFile) && size > 1000
Accepted(c) ==
    /\ exitCode[c] = 0
    /\ disk[c] # 0
    /\ SizeAccepted(Size(disk[c]))

\* spawn(ffmpegPath, args) for candidate c in process table p
Spawned(p, c, ok) == [p EXCEPT ![c] = IF ok THEN "running" ELSE "spawnfail"]

\* every alternate spawned at once
AllAlternativesStarted(p, ok) ==
    [c \in Candidates |-> IF c \in Range(streams) THEN (IF ok THEN "running" ELSE "spawnfail")
                          ELSE p[c]]

\* the first iteration of the loop of tryAlternativeStreams, up to its await
AlternativesStarted(p, ok) == Spawned(p, streams[1], ok)

\* a loop that starts over with the first alternate after the last one
NextStreamWrapping(c) ==
    LET i == CHOOSE j \in DOMAIN streams : streams[j] = c
    IN  IF i < Len(streams) THEN streams[i + 1] ELSE streams[1]

\* the stream after c in streams, 0 after the last one
NextStream(c) ==
    LET i == CHOOSE j \in DOMAIN streams : streams[j] = c
    IN  IF i < Len(streams) THEN streams[i + 1] ELSE 0

Fail(msg) ==
    /\ pc' = "done"
    /\ result' = "failure"
    /\ errorMsg' = msg

\* processVideo up to its await: resolveVideoPath, findFFmpeg, and
\* extractTelemetryStream up to the spawn of the primary candidate
processVideoStart ==
    /\ pc = "start"
    /\ \E videoFound, ffmpegFound, ok \in BOOLEAN :
         \/ /\ ~videoFound
            /\ Fail("Video file not found")
            /\ UNCHANGED <<disk, proc, loc, attempts>>
         \/ /\ videoFound /\ ~ffmpegFound
            /\ Fail("FFmpeg not found")
            /\ UNCHANGED <<disk, proc, loc, attempts>>
         \/ /\ videoFound /\ ffmpegFound
            /\ disk' = [disk EXCEPT ![PrimaryStream] = 0]
            /\ proc' = Spawned(proc, PrimaryStream, ok)
            /\ attempts' = Append(attempts, PrimaryStream)
            /\ loc' = "pending"
            /\ pc' = "await"
            /\ UNCHANGED <<result, errorMsg>>
    /\ UNCHANGED <<created, exitCode, binFile, awaiting, verdict, seen, parserVars>>

\* the demuxer of candidate c terminates: status code, and out = 0 (it wrote
\* no file) or the content it left in the output file (-y overwrites)
ProcExit(c) ==
    /\ proc[c] = "running"
    /\ \E code \in {0, 1}, out \in {0} \cup ContentIds :
         /\ exitCode' = [exitCode EXCEPT ![c] = code]
         /\ disk' = [disk EXCEPT ![c] = IF out = 0 THEN @ ELSE out]
         /\ created' = [created EXCEPT ![c] = (out # 0)]
    /\ proc' = [proc EXCEPT ![c] = "exited"]
    /\ UNCHANGED <<pc, result, errorMsg, loc, binFile, awaiting, attempts, verdict,
                   seen, parserVars>>

\* a loop that ends after the last alternate without throwing, so that
\* the promise of tryAlternativeStreams is never settled
LoopAfterNullNoThrow(c, p, v) ==
    /\ verdict' = v
    /\ IF NextStream(c) # 0
       THEN /\ \E ok \in BOOLEAN : proc' = Spawned(p, NextStream(c), ok)
            /\ attempts' = Append(attempts, NextStream(c))
            /\ awaiting' = NextStream(c)
            /\ UNCHANGED <<loc, errorMsg>>
       ELSE /\ proc' = p
            /\ awaiting' = 0
            /\ UNCHANGED <<loc, errorMsg, attempts>>

\* the loop of tryAlternativeStreams after the promise of alternate c gave
\* null: the next iteration up to its await, or the throw after the loop;
\* p and v are the process table and the verdicts the handler leaves
LoopAfterNull(c, p, v) ==
    /\ verdict' = v
    /\ IF NextStream(c) # 0
       THEN /\ \E ok \in BOOLEAN : proc' = Spawned(p, NextStream(c), ok)
            /\ attempts' = Append(attempts, NextStream(c))
            /\ awaiting' = NextStream(c)
            /\ UNCHANGED <<loc, errorMsg>>
       ELSE /\ proc' = p
            /\ awaiting' = 0
            /\ loc' = IF loc = "pending" THEN "rejected" ELSE loc
            /\ errorMsg' = IF loc = "pending" THEN "No suitable telemetry stream found"
                           ELSE errorMsg
            /\ UNCHANGED attempts

\* ffmpeg.on('error', ...) of candidate c
OnError(c) ==
    /\ proc[c] = "spawnfail"
    /\ exitCode' = [exitCode EXCEPT ![c] = -2]
    /\ IF c = PrimaryStream
       THEN \* reject(error)
            /\ proc' = [proc EXCEPT ![c] = "errored"]
            /\ verdict' = [verdict EXCEPT ![c] = "rejected"]
            /\ loc' = IF loc = "pending" THEN "rejected" ELSE loc
            /\ errorMsg' = IF loc = "pending" THEN "spawn error" ELSE errorMsg
            /\ UNCHANGED <<awaiting, attempts>>
       ELSE \* resolve(null)
            IF awaiting = c
            THEN LoopAfterNull(c, [proc EXCEPT ![c] = "errored"],
                               [verdict EXCEPT ![c] = "rejected"])
            ELSE /\ proc' = [proc EXCEPT ![c] = "errored"]
                 /\ UNCHANGED <<verdict, awaiting, attempts, loc, errorMsg>>
    /\ UNCHANGED <<pc, result, disk, created, binFile, seen, parserVars>>

\* ffmpeg.on('close', ...) of the primary candidate (lines 334-351)
OnClosePrimary ==
    LET c == PrimaryStream IN
    /\ proc[c] \in {"exited", "errored"}
    /\ IF exitCode[c] = 0 /\ disk[c] # 0
       THEN IF SizeAccepted(Size(disk[c]))
            THEN \* resolve(binFile)
                 /\ proc' = [proc EXCEPT ![c] = "closed"]
                 /\ verdict' = [verdict EXCEPT ![c] = "accepted"]
                 /\ loc' = IF loc = "pending" THEN "resolved" ELSE loc
                 /\ binFile' = IF loc = "pending" THEN c ELSE binFile
                 /\ UNCHANGED <<awaiting, attempts, errorMsg>>
            ELSE \* tryAlternativeStreams(...).then(resolve).catch(reject)
                 /\ \E ok \in BOOLEAN :
                       proc' = AlternativesStarted([proc EXCEPT ![c] = "closed"], ok)
                 /\ verdict' = [verdict EXCEPT ![c] = "rejected"]
                 /\ attempts' = Append(attempts, streams[1])
                 /\ awaiting' = streams[1]
                 /\ UNCHANGED <<loc, binFile, errorMsg>>
       ELSE \* reject(new Error('Telemetry extraction failed'))
            /\ proc' = [proc EXCEPT ![c] = "closed"]
            /\ verdict' = [verdict EXCEPT ![c] = "rejected"]
            /\ loc' = IF loc = "pending" THEN "rejected" ELSE loc
            /\ errorMsg' = IF loc = "pending" THEN "Telemetry extraction failed" ELSE errorMsg
            /\ UNCHANGED <<awaiting, attempts, binFile>>
    /\ seen' = [seen EXCEPT ![PrimaryStream] = disk[PrimaryStream]]
    /\ UNCHANGED <<pc, result, disk, created, exitCode, parserVars>>

\* ffmpeg.on('close', ...) of alternate c (lines 375-384), and the loop of
\* tryAlternativeStreams resumed by it
OnCloseAlternative(c) ==
    /\ c \in Range(streams)
    /\ proc[c] \in {"exited", "errored"}
    /\ IF Accepted(c)
       THEN \* resolve(binFile); if (success) return success
            /\ proc' = [proc EXCEPT ![c] = "closed"]
            /\ IF awaiting = c
               THEN /\ verdict' = [verdict EXCEPT ![c] = "accepted"]
                    /\ awaiting' = 0
                    /\ loc' = IF loc = "pending" THEN "resolved" ELSE loc
                    /\ binFile' = IF loc = "pending" THEN c ELSE binFile
               ELSE UNCHANGED <<verdict, awaiting, loc, binFile>>
            /\ UNCHANGED <<disk, attempts, errorMsg>>
       ELSE \* if (fs.existsSync(binFile)) fs.unlinkSync(binFile); resolve(null)
            /\ disk' = [disk EXCEPT ![c] = 0]
            /\ IF awaiting = c
               THEN LoopAfterNull(c, [proc EXCEPT ![c] = "closed"],
                                  [verdict EXCEPT ![c] = "rejected"])
               ELSE /\ proc' = [proc EXCEPT ![c] = "closed"]
                    /\ UNCHANGED <<verdict, awaiting, attempts, loc, errorMsg>>
            /\ UNCHANGED binFile
    /\ seen' = [seen EXCEPT ![c] = disk[c]]
    /\ UNCHANGED <<pc, result, created, exitCode, parserVars>>

\* processVideo resumed by the rejection of extractTelemetryStream: the catch
processVideoCatch ==
    /\ pc = "await"
    /\ loc = "rejected"
    /\ pc' = "done"
    /\ result' = "failure"
    /\ UNCHANGED <<errorMsg, disk, created, proc, exitCode, loc, binFile, awaiting,
                   attempts, verdict, seen, parserVars>>

\* processVideo resumed with binFile: fs.readFileSync(binFile) (which may
\* throw) and new GoProMaxParser(binaryData)
readFile ==
    /\ pc = "await"
    /\ loc = "resolved"
    /\ \E readOk \in BOOLEAN :
         IF readOk /\ disk[binFile] # 0
         THEN /\ data' = FileContents[disk[binFile]]
              /\ extractedData' = EmptyData
              /\ positions' = [t \in Tags |-> <<>>]
              /\ examined' = [t \in Tags |-> <<>>]
              /\ ppc' = "GPS5"
              /\ pc' = "parse"
              /\ UNCHANGED <<result, errorMsg, csvLines>>
         ELSE /\ Fail("read failed")
              /\ UNCHANGED parserVars
    /\ UNCHANGED <<disk, created, proc, exitCode, loc, binFile, awaiting, attempts, verdict,
                   seen>>

\* a serializer that throws when no channel has a sample
generateCSVThrowsOnEmpty ==
    /\ pc = "parse"
    /\ ppc = "parsed"
    /\ csvLines' = CSVLines(extractedData)
    /\ ppc' = "serialized"
    /\ IF \A t \in Tags : extractedData[t] = <<>>
       THEN Fail("no samples")
       ELSE /\ pc' = "cleanup"
            /\ UNCHANGED <<result, errorMsg>>
    /\ UNCHANGED <<disk, created, proc, exitCode, loc, binFile, awaiting, attempts, verdict,
                   seen, data, extractedData, positions, examined>>

\* generateCSV after parse() returned: the lines are built, then
\* fs.writeFileSync may throw
generateCSV ==
    /\ pc = "parse"
    /\ ppc = "parsed"
    /\ csvLines' = CSVLines(extractedData)
    /\ ppc' = "serialized"
    /\ \E writeOk \in BOOLEAN :
         IF writeOk
         THEN /\ pc' = "cleanup"
              /\ UNCHANGED <<result, errorMsg>>
         ELSE Fail("write failed")
    /\ UNCHANGED <<disk, created, proc, exitCode, loc, binFile, awaiting, attempts, verdict,
                   seen, data, extractedData, positions, examined>>

\* lines 743-764: the temporary file is removed and the success result returned
cleanupAndReturn ==
    /\ pc = "cleanup"
    /\ disk' = [disk EXCEPT ![binFile] = 0]
    /\ pc' = "done"
    /\ result' = "success"
    /\ UNCHANGED <<errorMsg, created, proc, exitCode, loc, binFile, awaiting, attempts,
                   verdict, seen, parserVars>>

Init ==
    /\ pc = "start"
    /\ result = "none"
    /\ errorMsg = ""
    /\ disk \in [Candidates -> StaleFiles]
    /\ created = [c \in Candidates |-> FALSE]
    /\ proc = [c \in Candidates |-> "none"]
    /\ exitCode = [c \in Candidates |-> 0]
    /\ loc = "idle"
    /\ binFile = 0
    /\ awaiting = 0
    /\ attempts = <<>>
    /\ verdict = [c \in Candidates |-> "none"]
    /\ seen = [c \in Candidates |-> 0]
    /\ data = <<>>
    /\ extractedData = EmptyData
    /\ positions = [t \in Tags |-> <<>>]
    /\ examined = [t \in Tags |-> <<>>]
    /\ csvLines = <<>>
    /\ ppc = "idle"

Next ==
    \/ processVideoStart
    \/ \E c \in Candidates : ProcExit(c)
    \/ \E c \in Candidates : OnError(c)
    \/ OnClosePrimary
    \/ \E c \in Candidates : OnCloseAlternative(c)
    \/ processVideoCatch
    \/ readFile
    \/ ParserStep
    \/ generateCSV
    \/ cleanupAndReturn

Spec == Init /\ [][Next]_vars

\* Scheduling. The environment: every spawned demuxer terminates, which is
\* what makes it emit 'close'. The program: processVideo is called, the
\* event loop runs every pending 'error' and 'close' handler, a settled
\* promise resumes processVideo, and its synchronous code runs on.
DemuxerTerminates == \E c \in Candidates : ProcExit(c)

EventLoop ==
    \/ processVideoStart
    \/ \E c \in Candidates : OnError(c)
    \/ OnClosePrimary
    \/ \E c \in Candidates : OnCloseAlternative(c)
    \/ processVideoCatch
    \/ readFile
    \/ ParserStep
    \/ generateCSV
    \/ cleanupAndReturn

Fairness == WF_vars(DemuxerTerminates) /\ WF_vars(EventLoop)

SpecLive == Spec /\ Fairness

(***************************************************************************)
(* Properties of the stream locator and the job                            *)
(***************************************************************************)
CandidateOrder == <<PrimaryStream>> \o <<2, 4, 5>>

IsPrefix(a, b) == Len(a) <= Len(b) /\ \A i \in 1..Len(a) : a[i] = b[i]

\* the promise of extractTelemetryStream is settled
LocatorFinished == loc \in {"resolved", "rejected"}

\* C1: candidates are attempted strictly in the order 0:3, 0:2, 0:4, 0:5; a
\* candidate is attempted only after the one before it was rejected; the
\* buffer returned is that of the first accepted candidate, which is the last
\* one attempted.
C1_AttemptOrder ==
    /\ IsPrefix(attempts, CandidateOrder)
    /\ \A i \in 2..Len(attempts) : verdict[attempts[i - 1]] = "rejected"
    /\ \A c \in Candidates : verdict[c] # "none" => c \in Range(attempts)
    /\ loc = "resolved" =>
          /\ attempts # <<>>
          /\ binFile = attempts[Len(attempts)]
          /\ verdict[binFile] = "accepted"
          /\ \A c \in Candidates \ {binFile} : verdict[c] # "accepted"

\* the primary candidate and the first alternate were rejected, the second
\* alternate was accepted and the job ran to its end without a further attempt
C1_Witness ==
    /\ pc = "done"
    /\ loc = "resolved"
    /\ binFile = 4
    /\ attempts = <<3, 2, 4>>

\* C2: a failed demux of any candidate, the primary one included, only
\* rejects that candidate; the locator reports failure only after all of
\* 0:3, 0:2, 0:4, 0:5 were attempted and rejected.
C2_FailureOnlyAfterAllCandidates ==
    loc = "rejected" =>
        /\ attempts = CandidateOrder
        /\ \A c \in Candidates : verdict[c] = "rejected"

\* C3: when the locator has finished, no file this job's demuxer created for
\* a rejected candidate is left on disk.
C3_NoFileOfRejectedCandidate ==
    LocatorFinished =>
        \A c \in Candidates :
            (verdict[c] = "rejected" /\ created[c]) => disk[c] = 0

\* C4: when processVideo has returned, on whatever path, the accepted
\* temporary buffer file is gone.
C4_AcceptedFileDeletedOnReturn ==
    (pc = "done" /\ binFile # 0) => disk[binFile] = 0

\* C5: the locator resolves with a candidate's file only if that candidate's
\* demuxer exited with status 0, the file exists and is larger than 1000
\* bytes (stated for the time before processVideo consumes the file).
C5_AcceptedOnlyAboveMinSize ==
    (loc = "resolved" /\ pc = "await") =>
        /\ exitCode[binFile] = 0
        /\ proc[binFile] = "closed"
        /\ disk[binFile] # 0
        /\ Size(disk[binFile]) > 1000

\* a 1001-byte output was accepted for stream 2 after the 1000-byte output of
\* the primary candidate, which exited with status 0, was rejected
C5_Witness ==
    /\ loc = "resolved" /\ pc = "await"
    /\ binFile = 2
    /\ Size(disk[2]) = 1001
    /\ verdict[3] = "rejected" /\ exitCode[3] = 0 /\ created[3]
    /\ disk[3] # 0 /\ Size(disk[3]) = 1000

\* C6: at most one demux process of the job is alive at any time.
C6_OneProcessAlive ==
    Cardinality({c \in Candidates : proc[c] = "running"}) <= 1

\* the 'close' callback of the failed spawn of stream 2 is still pending while
\* the process of stream 4 is alive
C6_Witness ==
    /\ proc[2] = "errored"
    /\ proc[4] = "running"

(***************************************************************************)
(* Properties of the parser                                                *)
(***************************************************************************)
PpcIndex(p) ==
    CASE p = "GPS5" -> 1
      [] p = "ACCL" -> 2
      [] p = "GYRO" -> 3
      [] p = "CORI" -> 4
      [] p = "parsed" -> 5
      [] p = "serialized" -> 6
      [] OTHER -> 0

\* the scan for tag has run
Scanned(tag) == PpcIndex(tag) < PpcIndex(ppc)

\* C7: for every buffer and each of the four markers, the offsets the marker
\* scan yields are strictly increasing and every offset o has o + 4 <= length.
C7_ScanOffsetsIncreasingInBounds ==
    \A tag \in Tags :
        LET p == positions[tag]
        IN  /\ \A i \in 1..Len(p) : p[i] >= 0 /\ p[i] + 4 <= Len(data)
            /\ \A i \in 1..(Len(p) - 1) : p[i] < p[i + 1]

\* a scan that yielded two offsets, the second one ending at the buffer's end
C7_Witness ==
    \E tag \in Tags :
        /\ Scanned(tag)
        /\ Len(positions[tag]) = 2
        /\ positions[tag][2] + 4 = Len(data)

\* C8: for every buffer and each of the four markers, the scan yields every
\* occurrence of the marker, also one that ends exactly at the buffer's end
\* and also when the buffer is the marker alone.
C8_ScanYieldsEveryOccurrence ==
    \A tag \in Tags :
        Scanned(tag) =>
            \A o \in 0..(Len(data) - 4) :
                MatchAt(data, MarkerBytes(tag), o) => o \in Range(positions[tag])

InRange(q, bound) == (0 - bound) * q.den <= q.num /\ q.num <= bound * q.den

\* C9: every sample of the accumulated location sequence has latitude in
\* [-90, 90] and longitude in [-180, 180], and never latitude = longitude = 0.
C9_LocationSamplesValid ==
    \A i \in 1..Len(extractedData["GPS5"]) :
        LET s == extractedData["GPS5"][i]
        IN  /\ InRange(s.latitude, 90)
            /\ InRange(s.longitude, 180)
            /\ ~(s.latitude.num = 0 /\ s.longitude.num = 0)

\* a block of two records was decoded into two samples, the first one lying
\* on the boundary of the latitude range
C9_Witness ==
    /\ ppc = "parsed"
    /\ Len(positions["GPS5"]) = 1
    /\ Len(extractedData["GPS5"]) = 2
    /\ extractedData["GPS5"][1].latitude = Div(-900000000, LatLonScale)

\* the buffer with one GPS5 marker at offset k followed, after the header, by
\* the one record holding the fields f
RoundTripBuffer(k, f) ==
    Zeros(k) \o MarkerBytes("GPS5") \o GPS5Header \o GPS5RecordBytes(f)

\* the fields f pass the validity check of parseGPS5Block
FieldsValid(f) ==
    ValidCoordinate(Div(f[1], LatLonScale), Div(f[2], LatLonScale))

\* C10 as stated: one marker at offset k and one well-formed record decode to
\* exactly one sample whose five values are the fields divided by 10,000,000
\* (latitude, longitude) and by 1,000 (altitude, 2D speed, 3D speed).
C10_RoundTripAsStated ==
    \A k \in 0..MaxPad : \A f \in GPS5Fields :
        (Scanned("GPS5") /\ data = RoundTripBuffer(k, f) /\ FieldsValid(f)) =>
            extractedData["GPS5"] =
                << [latitude  |-> Div(f[1], LatLonScale),
                    longitude |-> Div(f[2], LatLonScale),
                    altitude  |-> Div(f[3], AltSpeedScale),
                    speed_2d  |-> Div(f[4], AltSpeedScale),
                    speed_3d  |-> Div(f[5], AltSpeedScale)] >>

\* C10 amended: as above, but the 2D and 3D speeds are the absolute values of
\* the fourth and fifth fields divided by 1,000.
C10_RoundTripAbsSpeed ==
    \A k \in 0..MaxPad : \A f \in GPS5Fields :
        (Scanned("GPS5") /\ data = RoundTripBuffer(k, f) /\ FieldsValid(f)) =>
            extractedData["GPS5"] =
                << [latitude  |-> Div(f[1], LatLonScale),
                    longitude |-> Div(f[2], LatLonScale),
                    altitude  |-> Div(f[3], AltSpeedScale),
                    speed_2d  |-> MathAbs(Div(f[4], AltSpeedScale)),
                    speed_3d  |-> MathAbs(Div(f[5], AltSpeedScale))] >>

\* a one-record buffer with the marker at offset 2 and negative speed fields
\* was decoded into its one sample
C10_Witness ==
    /\ ppc = "parsed"
    /\ data = RoundTripBuffer(2, <<-900000000, 1800000000, -5000, -2500, -1>>)
    /\ Len(extractedData["GPS5"]) = 1

(***************************************************************************)
(* generateCSV                                                             *)
(***************************************************************************)
ChannelLengths == {Len(extractedData[t]) : t \in Tags}

DataRows == Len(csvLines) - 1

\* the fields of data row i (0-based)
DataRow(i) == csvLines[i + 2]

\* C11: generateCSV emits exactly max(the four channel lengths, 1) data
\* rows; row i carries the index i, the timestamp of row 0 is 0 and the
\* timestamp strictly increases with the index.
C11_RowCountIndexTimestamp ==
    ppc = "serialized" =>
        /\ DataRows >= 1
        /\ \A n \in ChannelLengths : DataRows >= n
        /\ DataRows \in ChannelLengths \cup {1}
        /\ \A i \in 0..(DataRows - 1) :
               /\ DataRow(i)[1] = [units |-> i, decimals |-> 0]
               /\ DataRow(i)[2].decimals = 6
        /\ DataRow(0)[2].units = 0
        /\ \A i \in 1..(DataRows - 1) : DataRow(i)[2].units > DataRow(i - 1)[2].units

\* channel lengths {3, 5, 0, 2} have given 5 rows
C11_Witness ==
    /\ ppc = "serialized"
    /\ Len(extractedData["GPS5"]) = 3
    /\ Len(extractedData["ACCL"]) = 5
    /\ Len(extractedData["GYRO"]) = 0
    /\ Len(extractedData["CORI"]) = 2
    /\ DataRows = 5
    /\ DataRow(4)[1].units = 4

Present(tag) == Len(extractedData[tag]) > 0

\* the column names of a channel when it is present, none when it is empty
ColumnsIfPresent(tag, names) == IF Present(tag) THEN names ELSE <<>>

\* C12: the header is index, timestamp, then the field names of exactly
\* the non-empty channels in the order location, acceleration, angular
\* rate, orientation; an empty channel contributes no column.
C12_HeaderOfPresentChannels ==
    ppc = "serialized" =>
        csvLines[1] =
            <<"index", "timestamp">>
            \o ColumnsIfPresent("GPS5",
                   <<"latitude", "longitude", "altitude", "speed_2d", "speed_3d">>)
            \o ColumnsIfPresent("ACCL", <<"accel_x", "accel_y", "accel_z">>)
            \o ColumnsIfPresent("GYRO", <<"gyro_x", "gyro_y", "gyro_z">>)
            \o ColumnsIfPresent("CORI",
                   <<"orientation_w", "orientation_x", "orientation_y", "orientation_z">>)

\* only the location channel is present: seven columns, one row per sample
C12_Witness ==
    /\ ppc = "serialized"
    /\ Len(extractedData["GPS5"]) = 3
    /\ \A t \in Tags \ {"GPS5"} : ~Present(t)
    /\ csvLines[1] = <<"index", "timestamp", "latitude", "longitude", "altitude",
                       "speed_2d", "speed_3d">>
    /\ DataRows = 3

\* no four consecutive bytes of data spell one of the markers
MarkerFree ==
    \A t \in Tags : \A i \in 1..(Len(data) - 3) : SubSeq(data, i, i + 3) # MarkerBytes(t)

\* C13: a 64-byte buffer that contains none of the four markers parses to
\* zero samples for every channel, and its table is the header
\* index,timestamp and one placeholder row with index 0 and timestamp 0.
C13_NoMarkerPlaceholderRow ==
    (Len(data) = 64 /\ MarkerFree) =>
        /\ \A t \in Tags : positions[t] = <<>> /\ extractedData[t] = <<>>
        /\ ppc = "serialized" =>
               csvLines = << <<"index", "timestamp">>,
                             <<[units |-> 0, decimals |-> 0],
                               [units |-> 0, decimals |-> 6]>> >>

\* the near miss ACCM followed by zeros has been parsed and serialized
C13_Witness ==
    /\ Len(data) = 64
    /\ MarkerFree
    /\ SubSeq(data, 1, 4) = <<65, 67, 67, 77>>
    /\ ppc = "serialized"
    /\ Len(csvLines) = 2

(***************************************************************************)
(* The job: failures and acceptance                                        *)
(***************************************************************************)
AllRejected == \A c \in Candidates : verdict[c] = "rejected"

\* C14: when every candidate is rejected the locator fails with 'No
\* suitable telemetry stream found', every candidate was attempted exactly
\* once, nothing is read, parsed or serialized for that input, and
\* processVideo returns a failure result.
C14_AllRejectedIsTerminalFailure ==
    AllRejected =>
        /\ loc = "rejected"
        /\ errorMsg = "No suitable telemetry stream found"
        /\ attempts = CandidateOrder
        /\ binFile = 0
        /\ ppc = "idle" /\ data = <<>> /\ extractedData = EmptyData /\ csvLines = <<>>
        /\ pc \in {"await", "done"}
        /\ pc = "done" => result = "failure"

\* all four candidates were rejected and processVideo has returned
C14_Witness ==
    /\ AllRejected
    /\ pc = "done"
    /\ result = "failure"
    /\ attempts = <<3, 2, 4, 5>>

C16_AcceptedOnlyWithSignature ==
    \A c \in Candidates :
        verdict[c] = "accepted" =>
            /\ seen[c] # 0
            /\ Size(seen[c]) > 1000
            /\ ContainsSignature(seen[c])

\* C16: a candidate, primary or alternate, is accepted only if its demuxer
\* exited with status 0 and its file is longer than 1000 bytes, and every
\* candidate whose close handler saw that is accepted, whether or not the
\* buffer contains the GPMF signature.
C16_AcceptedBySizeAlone ==
    \A c \in Candidates :
        /\ verdict[c] = "accepted" =>
               exitCode[c] = 0 /\ seen[c] # 0 /\ Size(seen[c]) > 1000
        /\ (proc[c] = "closed" /\ exitCode[c] = 0 /\ seen[c] # 0 /\ Size(seen[c]) > 1000)
               => verdict[c] = "accepted"

\* the primary was rejected for its size and an alternate was accepted
\* with a buffer that has no GPMF signature
C16_Witness ==
    /\ verdict[3] = "rejected"
    /\ verdict[2] = "accepted"
    /\ seen[2] # 0
    /\ ~ContainsSignature(seen[2])
    /\ binFile = 2

(***************************************************************************)
(* Decoding of blocks                                                      *)
(***************************************************************************)
\* the raw latitude and longitude fields of record slot j of the GPS5 block
\* at offset p
LatField(p, j) == ReadInt32LE(data, p + 8 + 20 * j)
LonField(p, j) == ReadInt32LE(data, p + 8 + 20 * j + 4)

\* the examined record slots of the k-th GPS5 block that a decoder keeps
\* when it drops exactly the out-of-range and the both-zero records
KeptUnlessBothZero(k) ==
    LET p == positions["GPS5"][k]
    IN  {j \in 0..(examined["GPS5"][k] - 1) :
            /\ LatField(p, j) >= -900000000 /\ LatField(p, j) <= 900000000
            /\ LonField(p, j) >= -1800000000 /\ LonField(p, j) <= 1800000000
            /\ ~(LatField(p, j) = 0 /\ LonField(p, j) = 0)}

\* C17: within one GPS5 block a record is dropped if and only if its
\* latitude/longitude are out of range or both zero; every other examined
\* record (latitude = 0 with a non-zero in-range longitude, say) is
\* materialized, and records after a dropped one are still decoded.
C17_DroppedIffOutOfRangeOrBothZero ==
    (Scanned("GPS5") /\ Len(positions["GPS5"]) = 1) =>
        Len(extractedData["GPS5"]) = Cardinality(KeptUnlessBothZero(1))

RECURSIVE SumSeq(_)
SumSeq(q) == IF q = <<>> THEN 0 ELSE Head(q) + SumSeq(Tail(q))

\* min(cap, max(0, floor((len - (p + skip)) / stride)))
SlotsByFormula(len, p, skip, stride, cap) ==
    LET room == len - (p + skip)
        whole == IF room < stride THEN 0 ELSE room \div stride
    IN  IF whole < cap THEN whole ELSE cap

\* the k-th occurrence of tag was examined for the record slots the formula
\* gives, and the last examined slot ends inside the buffer
SlotsAsStated(tag, k, skip, stride, cap) ==
    LET p == positions[tag][k]
        n == examined[tag][k]
    IN  /\ n = SlotsByFormula(Len(data), p, skip, stride, cap)
        /\ n > 0 => p + skip + n * stride <= Len(data)

\* C18: for a marker occurrence at offset p in a buffer of length L the
\* decoder examines exactly min(cap, max(0, floor((L - (p + skip)) / stride)))
\* record slots, with (skip, stride, cap) = (8, 20, 20) for GPS5, (12, 6, 100)
\* for ACCL and GYRO and (12, 8, 100) for CORI; no slot reaches past the
\* buffer's end, and ACCL, GYRO and CORI yield exactly that many samples.
C18_RecordSlotsExamined ==
    \A tag \in Tags :
        Scanned(tag) =>
            /\ Len(examined[tag]) = Len(positions[tag])
            /\ \A k \in 1..Len(positions[tag]) :
                   CASE tag = "GPS5" -> SlotsAsStated(tag, k, 8, 20, 20)
                     [] tag = "CORI" -> SlotsAsStated(tag, k, 12, 8, 100)
                     [] OTHER -> SlotsAsStated(tag, k, 12, 6, 100)
            /\ tag # "GPS5" => Len(extractedData[tag]) = SumSeq(examined[tag])
            /\ tag = "GPS5" => Len(extractedData[tag]) <= SumSeq(examined[tag])

\* a CORI block with room for 100 records and 7 bytes of a 101st gave
\* exactly 100 samples
C18_Witness ==
    /\ ppc = "parsed"
    /\ Len(data) = 819
    /\ positions["CORI"] = <<0>>
    /\ examined["CORI"] = <<100>>
    /\ Len(extractedData["CORI"]) = 100

\* the samples decoded for each occurrence of tag, joined in the order of
\* the marker offsets
BlocksInOffsetOrder(tag) ==
    Flatten([k \in 1..Len(positions[tag]) |-> ParseBlock(data, tag, positions[tag][k])])

\* C19: each channel's sequence after its scan is the concatenation of the
\* samples decoded for each marker occurrence, in increasing offset order
\* and in record order within a block; a later occurrence only appends, and
\* the scan of one channel leaves every other channel's sequence as it was.
C19_ChannelIsConcatenationOfBlocks ==
    \A tag \in Tags :
        /\ \A k \in 1..(Len(positions[tag]) - 1) : positions[tag][k] < positions[tag][k + 1]
        /\ extractedData[tag] = IF Scanned(tag) THEN BlocksInOffsetOrder(tag) ELSE <<>>

\* two ACCL blocks with a CORI block between them: the ACCL channel holds
\* the samples of the first block followed by the one of the second, and the
\* later scans of GYRO and CORI left it and the location channel alone
C19_Witness ==
    /\ ppc = "parsed"
    /\ Len(positions["ACCL"]) = 2
    /\ Len(positions["CORI"]) = 1
    /\ Len(ParseBlock(data, "ACCL", positions["ACCL"][1])) > 2
    /\ ParseBlock(data, "ACCL", positions["ACCL"][2])
           = <<[x |-> Div(-1, AxisScale), y |-> Div(-2, AxisScale), z |-> Div(-3, AxisScale)]>>
    /\ extractedData["ACCL"][Len(extractedData["ACCL"])].x = Div(-1, AxisScale)
    /\ extractedData["ACCL"][2].x = Div(1, AxisScale)
    /\ extractedData["GPS5"] # <<>>
    /\ extractedData["CORI"] # <<>>

\* the number of columns of a channel and the column before its first one
ColumnCount(tag) ==
    CASE tag = "GPS5" -> 5 [] tag = "ACCL" -> 3 [] tag = "GYRO" -> 3 [] tag = "CORI" -> 4

ColumnsBefore(tag) ==
    2 + (IF tag # "GPS5" /\ Present("GPS5") THEN 5 ELSE 0)
      + (IF tag \in {"GYRO", "CORI"} /\ Present("ACCL") THEN 3 ELSE 0)
      + (IF tag = "CORI" /\ Present("GYRO") THEN 3 ELSE 0)

\* the fields of a channel in a row that has no sample of it
DefaultFields(tag) ==
    CASE tag = "GPS5" -> <<[units |-> 0, decimals |-> 7], [units |-> 0, decimals |-> 7],
                           [units |-> 0, decimals |-> 3], [units |-> 0, decimals |-> 3],
                           [units |-> 0, decimals |-> 3]>>
      [] tag = "CORI" -> <<[units |-> 1000000, decimals |-> 6], [units |-> 0, decimals |-> 6],
                           [units |-> 0, decimals |-> 6], [units |-> 0, decimals |-> 6]>>
      [] OTHER -> <<[units |-> 0, decimals |-> 6], [units |-> 0, decimals |-> 6],
                    [units |-> 0, decimals |-> 6]>>

\* the fields of channel tag in data row i
ChannelFields(tag, i) ==
    SubSeq(DataRow(i), ColumnsBefore(tag) + 1, ColumnsBefore(tag) + ColumnCount(tag))

\* C20: for every present channel, every row whose index is at least the
\* channel's length renders the channel's default: zero in every location,
\* acceleration and angular-rate field, and w=1, x=0, y=0, z=0 for
\* orientation.
C20_AbsentSampleRendersDefault ==
    ppc = "serialized" =>
        \A tag \in Tags :
            Present(tag) =>
                \A i \in Len(extractedData[tag])..(DataRows - 1) :
                    ChannelFields(tag, i) = DefaultFields(tag)

\* lengths 3, 5, 0, 2: rows 3 and 4 hold the location defaults and rows 2
\* to 4 the identity quaternion, after rows with decoded values
C20_Witness ==
    /\ ppc = "serialized"
    /\ Len(extractedData["GPS5"]) = 3
    /\ Len(extractedData["ACCL"]) = 5
    /\ Len(extractedData["GYRO"]) = 0
    /\ Len(extractedData["CORI"]) = 2
    /\ ChannelFields("GPS5", 2) # DefaultFields("GPS5")
    /\ ChannelFields("GPS5", 4) = DefaultFields("GPS5")
    /\ ChannelFields("CORI", 1) # DefaultFields("CORI")
    /\ ChannelFields("CORI", 4) = DefaultFields("CORI")

\* the decoded values of sample i of a channel, printed with the channel's
\* numbers of decimals
DecodedFields(tag, i) ==
    LET s == extractedData[tag][i + 1]
    IN  CASE tag = "GPS5" -> <<ToFixed(s.latitude, 7), ToFixed(s.longitude, 7),
                               ToFixed(s.altitude, 3), ToFixed(s.speed_2d, 3),
                               ToFixed(s.speed_3d, 3)>>
          [] tag = "CORI" -> <<ToFixed(s.w, 6), ToFixed(s.x, 6), ToFixed(s.y, 6),
                               ToFixed(s.z, 6)>>
          [] OTHER -> <<ToFixed(s.x, 6), ToFixed(s.y, 6), ToFixed(s.z, 6)>>

\* C21: for every present channel and every row index smaller than the
\* channel's length, every field of the row is the decoded value of that
\* sample; a decoded orientation sample with w = 0 is rendered with w = 0,
\* not with the default 1.
C21_PresentSampleRendersDecodedValue ==
    ppc = "serialized" =>
        \A tag \in Tags :
            \A i \in 0..(Len(extractedData[tag]) - 1) :
                ChannelFields(tag, i) = DecodedFields(tag, i)

\* 2 + 5*[location non-empty] + 3*[acceleration non-empty]
\*   + 3*[angular rate non-empty] + 4*[orientation non-empty]
TableWidth ==
    2 + (IF Present("GPS5") THEN 5 ELSE 0) + (IF Present("ACCL") THEN 3 ELSE 0)
      + (IF Present("GYRO") THEN 3 ELSE 0) + (IF Present("CORI") THEN 4 ELSE 0)

\* C22: in every table generateCSV builds, the header and every data row
\* have the same number of fields, 2 + 5, 3, 3 and 4 for the non-empty
\* location, acceleration, angular-rate and orientation channels.
C22_RowsAsWideAsHeader ==
    ppc = "serialized" =>
        /\ Len(csvLines[1]) = TableWidth
        /\ \A i \in 0..(DataRows - 1) : Len(DataRow(i)) = Len(csvLines[1])

\* location shorter than orientation, no angular rate: 11 columns in the
\* header and in the last row, which has no location sample
C22_Witness ==
    /\ ppc = "serialized"
    /\ Len(extractedData["GPS5"]) = 1
    /\ Len(extractedData["ACCL"]) = 0
    /\ Len(extractedData["GYRO"]) = 0
    /\ Len(extractedData["CORI"]) = 4
    /\ Len(csvLines[1]) = 11
    /\ Len(DataRow(3)) = 11

(***************************************************************************)
(* Termination                                                             *)
(***************************************************************************)
LocatorSettled == loc \in {"resolved", "rejected"}

\* C23: when every spawned demuxer terminates, processVideo eventually
\* returns a result, and it returns from its await only when the locator
\* has finished; the locator's outcome is exactly one and never changes:
\* one accepted buffer, or no candidate accepted (not found); at most four
\* candidates are attempted.
C23_LocatorAndJobTerminate ==
    /\ [](/\ Len(attempts) <= 4
          /\ loc = "resolved" =>
                 /\ binFile \in Candidates
                 /\ {c \in Candidates : verdict[c] = "accepted"} = {binFile}
          /\ loc = "rejected" =>
                 /\ binFile = 0
                 /\ {c \in Candidates : verdict[c] = "accepted"} = {}
          /\ pc = "done" =>
                 /\ result \in {"success", "failure"}
                 /\ attempts # <<>> => LocatorSettled)
    /\ [][(LocatorSettled => (loc' = loc /\ binFile' = binFile))
           /\ (pc = "done" => (pc' = pc /\ result' = result))]_vars
    /\ <>(pc = "done")

\* the fourth attempt was the accepted one and processVideo returned success
C23_Witness ==
    /\ pc = "done"
    /\ result = "success"
    /\ loc = "resolved"
    /\ attempts = <<3, 2, 4, 5>>
    /\ binFile = 5
    /\ csvLines # <<>>

====
